---- MODULE Spec2Model ----
(***************************************************************************)
(* State-machine model of src/cli.js, the project scaffolding wizard.      *)
(*                                                                         *)
(* Strings are sequences of one-character strings, so that trimming,       *)
(* splitting, parsing and replacing are computed character by character.   *)
(* One action stands for one turn of the Node event loop: the callback     *)
(* that resumes an await together with all synchronous code (and the       *)
(* microtasks) that follow it up to the next pending operation.            *)
(***************************************************************************)
EXTENDS Integers, Sequences, FiniteSets, TLC

VARIABLES
    pc,            \* where the wizard is waiting: the pending operation
    templates,     \* the value main() holds after userInterfaceLoadTemplates
    projectSetup,  \* the projectSetup object of userInterface
    exitCode,      \* the process exit code, NoExit while the process runs
    effects,       \* history: the side effects and outcomes so far
    shell,         \* history: the results of the two git config lookups
    answerDenoted, \* history: did the typed template answer denote an index
    dirs,          \* the directories that exist (absolute, as component lists)
    workingDir,    \* createProject's workingDir
    targetExisted, \* history: did workingDir exist when createProject began
    repo,          \* what the clone delivered: the manifest and the files
    task,          \* the filterFile calls started by filterFiles
    content,       \* the text of the cloned files
    cleanup,       \* the three deletions started by removeTemplateFiles
    today          \* the date new Date() returns

vars == <<pc, templates, projectSetup, exitCode, effects, shell, answerDenoted,
          dirs, workingDir, targetExisted, repo, task, content,
          cleanup, today>>

(***************************************************************************)
(* Bounds of the model                                                     *)
(***************************************************************************)
MaxTemplates == 2
MaxAnswerLen == 3
MaxNameLen == 2

(***************************************************************************)
(* Strings                                                                 *)
(***************************************************************************)
RECURSIVE StringsUpTo(_, _)
StringsUpTo(alphabet, n) ==
    IF n = 0 THEN {<<>>}
    ELSE LET shorter == StringsUpTo(alphabet, n - 1)
         IN shorter \cup {Append(s, c) : s \in shorter, c \in alphabet}

IsWhiteSpace(c) == c \in {" ", "\t", "\n"}

IsDigit(c) == c \in {"0", "1", "2", "3", "4", "5", "6", "7", "8", "9"}

DigitValue(c) ==
    CASE c = "0" -> 0 [] c = "1" -> 1 [] c = "2" -> 2 [] c = "3" -> 3
      [] c = "4" -> 4 [] c = "5" -> 5 [] c = "6" -> 6 [] c = "7" -> 7
      [] c = "8" -> 8 [] c = "9" -> 9
      [] c \in {"a", "A"} -> 10 [] c \in {"b", "B"} -> 11
      [] c \in {"c", "C"} -> 12 [] c \in {"d", "D"} -> 13
      [] c \in {"e", "E"} -> 14 [] c \in {"f", "F"} -> 15
      [] OTHER -> 99

RECURSIVE TrimStart(_)
TrimStart(s) ==
    IF s # <<>> /\ IsWhiteSpace(Head(s)) THEN TrimStart(Tail(s)) ELSE s

RECURSIVE TrimEnd(_)
TrimEnd(s) ==
    IF s # <<>> /\ IsWhiteSpace(s[Len(s)])
    THEN TrimEnd(SubSeq(s, 1, Len(s) - 1)) ELSE s

\* String.prototype.trim
Trim(s) == TrimEnd(TrimStart(s))

\* String.prototype.split(/\s+/): the pieces between the maximal runs of
\* white space; a run at either end leaves an empty piece there.
RECURSIVE SplitWhiteSpace(_, _, _, _)
SplitWhiteSpace(s, i, piece, out) ==
    IF i > Len(s) THEN Append(out, piece)
    ELSE IF IsWhiteSpace(s[i])
         THEN IF i > 1 /\ IsWhiteSpace(s[i - 1])
              THEN SplitWhiteSpace(s, i + 1, piece, out)
              ELSE SplitWhiteSpace(s, i + 1, <<>>, Append(out, piece))
         ELSE SplitWhiteSpace(s, i + 1, Append(piece, s[i]), out)

LowerCaseChar(c) ==
    CASE c = "A" -> "a" [] c = "B" -> "b" [] OTHER -> c

\* String.prototype.toLowerCase
ToLowerCase(s) == [i \in 1..Len(s) |-> LowerCaseChar(s[i])]

\* Array.prototype.join
RECURSIVE Join(_, _)
Join(pieces, sep) ==
    IF pieces = <<>> THEN <<>>
    ELSE IF Len(pieces) = 1 THEN pieces[1]
    ELSE pieces[1] \o sep \o Join(Tail(pieces), sep)

\* String.prototype.split on a one-character separator
RECURSIVE SplitChar(_, _, _, _, _)
SplitChar(s, sep, i, piece, out) ==
    IF i > Len(s) THEN Append(out, piece)
    ELSE IF s[i] = sep
         THEN SplitChar(s, sep, i + 1, <<>>, Append(out, piece))
         ELSE SplitChar(s, sep, i + 1, Append(piece, s[i]), out)

(***************************************************************************)
(* convertStringToProjectId                                                *)
(***************************************************************************)
convertStringToProjectId(projectName) ==
    LET splits == SplitWhiteSpace(Trim(projectName), 1, <<>>, <<>>)
        lowered == [i \in 1..Len(splits) |-> ToLowerCase(splits[i])]
    IN Join(lowered, <<"-">>)

(***************************************************************************)
(* Number.parseInt(string) without a radix                                 *)
(***************************************************************************)
NaN == [nan |-> TRUE, val |-> 0]

RECURSIVE DigitPrefixValue(_, _, _, _)
DigitPrefixValue(s, i, radix, acc) ==
    IF i > Len(s) \/ DigitValue(s[i]) >= radix THEN acc
    ELSE DigitPrefixValue(s, i + 1, radix, acc * radix + DigitValue(s[i]))

ParseInt(string) ==
    LET t == TrimStart(string)
        negative == t # <<>> /\ t[1] = "-"
        u == IF t # <<>> /\ t[1] \in {"-", "+"} THEN Tail(t) ELSE t
        hex == Len(u) >= 2 /\ u[1] = "0" /\ u[2] \in {"x", "X"}
        radix == IF hex THEN 16 ELSE 10
        z == IF hex THEN SubSeq(u, 3, Len(u)) ELSE u
    IN IF z = <<>> \/ DigitValue(z[1]) >= radix THEN NaN
       ELSE LET v == DigitPrefixValue(z, 1, radix, 0)
            IN [nan |-> FALSE, val |-> IF negative THEN 0 - v ELSE v]

\* Number.isInteger
IsInteger(n) == ~n.nan

(***************************************************************************)
(* Paths and the file system                                               *)
(***************************************************************************)
\* process.cwd(), and the same directory as its list of components
Cwd == <<"/", "w">>
CwdDir == <<(<<"w">>)>>

\* normalizeString of path.join / path.resolve: empty and "." segments are
\* dropped, ".." removes the segment before it (nothing above the root)
RECURSIVE NormalizeSegments(_, _, _)
NormalizeSegments(segments, i, out) ==
    IF i > Len(segments) THEN out
    ELSE IF segments[i] = <<>> \/ segments[i] = <<".">>
         THEN NormalizeSegments(segments, i + 1, out)
    ELSE IF segments[i] = <<".", ".">>
         THEN NormalizeSegments(segments, i + 1,
                  IF out = <<>> THEN out ELSE SubSeq(out, 1, Len(out) - 1))
    ELSE NormalizeSegments(segments, i + 1, Append(out, segments[i]))

\* path.join(a, b) for an absolute a: the normalized path, as its components
PathJoin(a, b) ==
    NormalizeSegments(SplitChar(a \o <<"/">> \o b, "/", 1, <<>>, <<>>), 1, <<>>)

\* The kernel's lookup of a path: every directory on the way has to exist,
\* ".." goes to the parent of the directory reached so far.
RECURSIVE Lookup(_, _, _, _)
Lookup(segments, i, at, existing) ==
    IF i > Len(segments) THEN TRUE
    ELSE IF segments[i] = <<>> \/ segments[i] = <<".">>
         THEN Lookup(segments, i + 1, at, existing)
    ELSE IF segments[i] = <<".", ".">>
         THEN Lookup(segments, i + 1,
                  IF at = <<>> THEN at ELSE SubSeq(at, 1, Len(at) - 1), existing)
    ELSE Append(at, segments[i]) \in existing
         /\ Lookup(segments, i + 1, Append(at, segments[i]), existing)

\* fs.existsSync(p): a relative p is looked up from the working directory
ExistsSync(p, existing) ==
    /\ p # <<>>
    /\ Lookup(SplitChar(p, "/", 1, <<>>, <<>>), 1,
              IF p[1] = "/" THEN <<>> ELSE CwdDir, existing)

getProjectTargetDirectory(setup) == PathJoin(Cwd, setup.id)

\* checkAvailabilityOfDirectory(targetDirectory) throws
checkAvailabilityOfDirectory(targetDirectory, existing) ==
    ExistsSync(targetDirectory, existing)

\* a directory and the directories above it
Ancestors(dir) == {SubSeq(dir, 1, n) : n \in 0..Len(dir)}

(***************************************************************************)
(* String.prototype.replaceAll(searchString, replaceValue)                 *)
(***************************************************************************)
\* The grave accent (U+0060) and the apostrophe (U+0027) as characters
GraveAccent == "U+0060"
Apostrophe == "'"

\* GetSubstitution: the replacement text for the match at position; there
\* are no captures, so the patterns are $$, $&, $ with a grave accent (the
\* text before the match) and $ with an apostrophe (the text after it)
RECURSIVE GetSubstitution(_, _, _, _, _, _)
GetSubstitution(matched, str, position, replacement, i, out) ==
    IF i > Len(replacement) THEN out
    ELSE IF replacement[i] = "$" /\ i < Len(replacement)
    THEN LET c == replacement[i + 1]
         IN IF c = "$"
            THEN GetSubstitution(matched, str, position, replacement, i + 2,
                                 Append(out, "$"))
            ELSE IF c = "&"
            THEN GetSubstitution(matched, str, position, replacement, i + 2,
                                 out \o matched)
            ELSE IF c = GraveAccent
            THEN GetSubstitution(matched, str, position, replacement, i + 2,
                                 out \o SubSeq(str, 1, position - 1))
            ELSE IF c = Apostrophe
            THEN GetSubstitution(matched, str, position, replacement, i + 2,
                                 out \o SubSeq(str, position + Len(matched), Len(str)))
            ELSE GetSubstitution(matched, str, position, replacement, i + 1,
                                 Append(out, "$"))
    ELSE GetSubstitution(matched, str, position, replacement, i + 1,
                         Append(out, replacement[i]))

MatchesAt(str, key, i) ==
    i + Len(key) - 1 <= Len(str) /\ SubSeq(str, i, i + Len(key) - 1) = key

\* StringIndexOf(str, key, i): the first match at or after i, 0 for none
IndexOf(str, key, i) ==
    LET found == {p \in i..Len(str) : MatchesAt(str, key, p)}
    IN IF found = {} THEN 0
       ELSE CHOOSE p \in found : \A q \in found : p <= q

\* the loop of replaceAll: matches are searched from the end of the last one
RECURSIVE ReplaceAllFrom(_, _, _, _, _)
ReplaceAllFrom(str, key, replacement, i, out) ==
    LET p == IndexOf(str, key, i)
    IN IF p = 0 THEN out \o SubSeq(str, i, Len(str))
       ELSE ReplaceAllFrom(str, key, replacement, p + Len(key),
                out \o SubSeq(str, i, p - 1)
                    \o GetSubstitution(key, str, p, replacement, 1, <<>>))

ReplaceAll(str, key, replacement) == ReplaceAllFrom(str, key, replacement, 1, <<>>)

(***************************************************************************)
(* filterFile                                                              *)
(***************************************************************************)
Webstart == <<"w", "e", "b", "s", "t", "a", "r", "t">>
WebstartProject == Webstart \o <<"-", "p", "r", "o", "j", "e", "c", "t", "-">>
WebstartProjectId == WebstartProject \o <<"i", "d">>
WebstartProjectName == WebstartProject \o <<"n", "a", "m", "e">>
WebstartProjectAuthor == WebstartProject \o <<"a", "u", "t", "h", "o", "r">>
WebstartProjectSetupdate ==
    WebstartProject \o <<"s", "e", "t", "u", "p", "d", "a", "t", "e">>
WebstartTemplateUrl ==
    Webstart \o <<"-", "t", "e", "m", "p", "l", "a", "t", "e", "-", "u", "r", "l">>
AtWebstart == <<"@">> \o Webstart

\* Number to decimal text, as a template literal prints it
DigitChars == <<"0", "1", "2", "3", "4", "5", "6", "7", "8", "9">>
RECURSIVE NumberToString(_)
NumberToString(n) ==
    IF n < 10 THEN <<DigitChars[n + 1]>>
    ELSE Append(NumberToString(n \div 10), DigitChars[(n % 10) + 1])

\* Date.prototype.toLocaleDateString("en-US"): month/day/year, not padded
ToLocaleDateString(date) ==
    NumberToString(date.month) \o <<"/">> \o NumberToString(date.day)
        \o <<"/">> \o NumberToString(date.year)

\* one pass of the switch in filterFile's loop
FilterKeyword(fileData, key, setup, date) ==
    CASE key = WebstartProjectId -> ReplaceAll(fileData, key, setup.id)
      [] key = WebstartProjectName -> ReplaceAll(fileData, key, setup.name)
      [] key = WebstartProjectAuthor ->
             ReplaceAll(fileData, key,
                        setup.userName \o <<" ", "<">> \o setup.userEmail \o <<">">>)
      [] key = WebstartProjectSetupdate ->
             ReplaceAll(fileData, key,
                        ToLocaleDateString(date)
                            \o <<" ", "(", "e", "n", "-", "U", "S", ")">>)
      [] key = WebstartTemplateUrl ->
             ReplaceAll(fileData, key, setup.template.htmlUrl)
      [] key = AtWebstart -> ReplaceAll(fileData, key, <<"@">> \o setup.id)
      [] OTHER -> fileData

\* the loop of filterFile over fileConfig.keywords, from the k-th on
RECURSIVE FilterKeywords(_, _, _, _, _)
FilterKeywords(fileData, keywords, k, setup, date) ==
    IF k > Len(keywords) THEN fileData
    ELSE FilterKeywords(FilterKeyword(fileData, keywords[k], setup, date),
                        keywords, k + 1, setup, date)

(***************************************************************************)
(* The environment: what the prompts, the network, git and the cloned      *)
(* repository can deliver                                                  *)
(***************************************************************************)
AnswerAlphabet == {"0", "1", "5", "-", ".", "e", "x", " "}
NameAlphabet == {"A", " ", "/", "."}

Dates == {[year |-> 2024, month |-> 1, day |-> 5]}

\* the i-th item of the search response, mapped as fetchAvailableTemplates does
TemplateItem(i) ==
    [name |-> <<"t", DigitChars[i + 1]>>,
     htmlUrl |-> <<"h", DigitChars[i + 1]>>,
     gitUrl |-> <<"g", DigitChars[i + 1]>>]

fetchAvailableTemplates(n) == [i \in 1..n |-> TemplateItem(i)]

\* the callback arguments of exec for a git config lookup
ShellResults(stdout) ==
    {[ran |-> TRUE, error |-> TRUE, stdout |-> <<>>],
     [ran |-> TRUE, error |-> FALSE, stdout |-> stdout]}
NotRun == [ran |-> FALSE, error |-> FALSE, stdout |-> <<>>]

\* what may exist besides the root and the working directory: nothing,
\* /a or /w/a
ExistingDirs == {{}, {<<(<<"a">>)>>}, {<<(<<"w">>), (<<"a">>)>>}}

\* the files of a template repository that a manifest may name
Readme ==
    <<"#", " ">> \o WebstartProjectId \o <<"\n">> \o WebstartProjectName
PackageJson == AtWebstart \o <<"/">> \o WebstartProjectId
RepoContent == [f \in {"README.md", "package.json"} |->
                   IF f = "README.md" THEN Readme ELSE PackageJson]

ManifestProjects ==
    { <<>>,
      <<[file |-> "README.md",
         keywords |-> <<WebstartProjectId, WebstartProjectName>>],
        [file |-> "package.json", keywords |-> <<AtWebstart, WebstartProjectId>>]>> }

\* __template.json as the clone delivers it
ManifestFiles ==
    {[kind |-> k, project |-> <<>>] : k \in {"missing", "malformed", "noProject"}}
      \cup {[kind |-> "json", project |-> p] : p \in ManifestProjects}

\* what a clone can deliver
Repos == {[manifest |-> m, files |-> RepoContent] : m \in ManifestFiles}
NoRepo == [manifest |-> [kind |-> "missing", project |-> <<>>], files |-> <<>>]

CleanupTargets == {"__template.json", "LICENSE", ".git"}

(***************************************************************************)
(* Initial state: the module is loaded, main() awaits the catalog          *)
(***************************************************************************)
NoExit == -1
NoTemplate == [name |-> <<>>, htmlUrl |-> <<>>, gitUrl |-> <<>>]
Undefined == [isUndefined |-> TRUE, items |-> <<>>]

InitialProjectSetup ==
    [template |-> NoTemplate, id |-> <<>>, name |-> <<>>,
     userName |-> <<>>, userEmail |-> <<>>]
NotStarted == [t \in CleanupTargets |-> "notStarted"]

Init ==
    /\ pc = "fetch"
    /\ templates = Undefined
    /\ projectSetup = InitialProjectSetup
    /\ exitCode = NoExit
    /\ effects = {}
    /\ shell = [name |-> NotRun, email |-> NotRun]
    /\ answerDenoted = "none"
    /\ dirs = {<<>>, CwdDir}
    /\ workingDir = <<>>
    /\ targetExisted = FALSE
    /\ repo = NoRepo
    /\ task = <<>>
    /\ content = <<>>
    /\ cleanup = NotStarted
    /\ today \in Dates


\* process.exit(code)
Exit(code) == pc' = "exited" /\ exitCode' = code

\* A rejection nobody handles (main().then has no catch): Node prints the
\* error and ends the process with this code.
UnhandledRejectionExitCode == 1

(***************************************************************************)
(* main / userInterfaceLoadTemplates                                       *)
(***************************************************************************)
\* what userInterfaceLoadTemplates returns for the fetched items
userInterfaceLoadTemplates(items) ==
    IF Len(items) = 0 THEN Undefined ELSE [isUndefined |-> FALSE, items |-> items]

\* printAvailableTemplates reads templates.length: a TypeError on undefined
printAvailableTemplatesThrows(t) == t.isUndefined

\* fetchAvailableTemplates resolves with n items
FetchDone(n) ==
    /\ pc = "fetch"
    /\ LET loaded == userInterfaceLoadTemplates(fetchAvailableTemplates(n))
       IN /\ templates' = loaded
          /\ IF printAvailableTemplatesThrows(loaded)
             THEN /\ effects' = effects \cup {"catalogEmpty", "noTemplatesMessage"}
                  /\ Exit(UnhandledRejectionExitCode)
             ELSE /\ effects' = effects \cup {"questionTemplate"}
                  /\ pc' = "select"
                  /\ UNCHANGED exitCode
    /\ UNCHANGED <<projectSetup, shell, answerDenoted, dirs, workingDir,
                   targetExisted, repo, task, content, cleanup, today>>

\* fetch, .json() or response.items.map fails: main() rejects
FetchFail ==
    /\ pc = "fetch"
    /\ Exit(UnhandledRejectionExitCode)
    /\ UNCHANGED <<templates, projectSetup, effects, shell, answerDenoted, dirs,
                   workingDir, targetExisted, repo, task, content,
                   cleanup, today>>

(***************************************************************************)
(* userInterface                                                           *)
(***************************************************************************)
\* the test of line 60
InvalidTemplateIdx(templateIdx, length) ==
    ~IsInteger(templateIdx) \/ templateIdx.val < 0 \/ templateIdx.val >= length

\* History only: the typed text is a decimal numeral (white space around it
\* and a sign allowed) of an index of the catalog.
DenotesIndex(answer, length) ==
    LET t == Trim(answer)
        u == IF t # <<>> /\ t[1] \in {"-", "+"} THEN Tail(t) ELSE t
        v == DigitPrefixValue(u, 1, 10, 0)
    IN /\ u # <<>>
       /\ \A i \in 1..Len(u) : IsDigit(u[i])
       /\ (IF t[1] = "-" THEN 0 - v ELSE v) \in 0..(length - 1)

\* the template question is answered
AnswerTemplate(answer) ==
    /\ pc = "select"
    /\ answerDenoted' =
           IF DenotesIndex(answer, Len(templates.items)) THEN "yes" ELSE "no"
    /\ LET templateIdx == ParseInt(answer)
       IN IF InvalidTemplateIdx(templateIdx, Len(templates.items))
          THEN /\ Exit(9)
               /\ UNCHANGED <<projectSetup, effects>>
          ELSE /\ projectSetup' = [projectSetup EXCEPT
                      !.template = templates.items[templateIdx.val + 1]]
               /\ effects' = effects \cup {"questionName"}
               /\ pc' = "name"
               /\ UNCHANGED exitCode
    /\ UNCHANGED <<templates, shell, dirs, workingDir, targetExisted,
                   repo, task, content, cleanup, today>>

\* the name question is answered; getCurrentUserInfo starts its first lookup
AnswerName(answer) ==
    /\ pc = "name"
    /\ LET name == Trim(answer)
       IN IF Len(name) = 0
          THEN /\ Exit(9)
               /\ UNCHANGED <<projectSetup, effects>>
          ELSE /\ projectSetup' = [projectSetup EXCEPT
                      !.name = name, !.id = convertStringToProjectId(name)]
               /\ effects' = effects \cup {"gitConfig"}
               /\ pc' = "gitName"
               /\ UNCHANGED exitCode
    /\ UNCHANGED <<templates, shell, answerDenoted, dirs, workingDir,
                   targetExisted, repo, task, content, cleanup, today>>

\* String.prototype.replace("\n", ""): the first line feed only
RECURSIVE ReplaceFirst(_, _)
ReplaceFirst(s, c) ==
    IF s = <<>> THEN s
    ELSE IF Head(s) = c THEN Tail(s)
    ELSE <<Head(s)>> \o ReplaceFirst(Tail(s), c)

FallbackUserInfo == [gitName |-> <<"U", "n", "k", "n", "o", "w", "n">>,
                     gitEmail |-> <<>>]

\* a fallback for each field on its own
getCurrentUserInfo_perField(nameResult, emailResult) ==
    [gitName |-> IF nameResult.error THEN FallbackUserInfo.gitName
                 ELSE ReplaceFirst(nameResult.stdout, "\n"),
     gitEmail |-> IF emailResult.error \/ ~emailResult.ran
                  THEN FallbackUserInfo.gitEmail
                  ELSE ReplaceFirst(emailResult.stdout, "\n")]

\* getCurrentUserInfo's result, given how the lookups ended; a failed
\* lookup rejects executeShell's promise and the catch answers
getCurrentUserInfo(nameResult, emailResult) ==
    IF nameResult.error \/ emailResult.error
    THEN FallbackUserInfo
    ELSE [gitName |-> ReplaceFirst(nameResult.stdout, "\n"),
          gitEmail |-> ReplaceFirst(emailResult.stdout, "\n")]

\* userInterface after getCurrentUserInfo returned: the summary question
AskSummary(info) ==
    /\ projectSetup' = [projectSetup EXCEPT
           !.userName = info.gitName, !.userEmail = info.gitEmail]
    /\ effects' = effects \cup {"questionConfirm"}
    /\ pc' = "confirm"

\* git config user.name ends
GitNameDone(result) ==
    /\ pc = "gitName"
    /\ shell' = [shell EXCEPT !.name = result]
    /\ IF result.error
       THEN AskSummary(getCurrentUserInfo(result, NotRun))
       ELSE pc' = "gitEmail" /\ UNCHANGED <<projectSetup, effects>>
    /\ UNCHANGED <<templates, exitCode, answerDenoted, dirs, workingDir,
                   targetExisted, repo, task, content, cleanup, today>>

\* git config user.email ends
GitEmailDone(result) ==
    /\ pc = "gitEmail"
    /\ shell' = [shell EXCEPT !.email = result]
    /\ AskSummary(getCurrentUserInfo(shell.name, result))
    /\ UNCHANGED <<templates, exitCode, answerDenoted, dirs, workingDir,
                   targetExisted, repo, task, content, cleanup, today>>

(***************************************************************************)
(* createProject                                                           *)
(***************************************************************************)
\* Promise.allSettled over operations with these states
PromiseAllSettled(states) ==
    IF \A st \in states : st \in {"fulfilled", "rejected"}
    THEN "fulfilled" ELSE "pending"

\* the rejection caught inside downloadProjectTemplateData and dropped
downloadRejects_swallowed(cloneOk) == FALSE

\* does the promise downloadProjectTemplateData returns reject: it returns
\* exec's promise without awaiting it, so its own catch never runs
downloadRejects(cloneOk) == ~cloneOk

\* does filterFiles throw before it starts a filterFile: readFileSync,
\* JSON.parse, or .map on a missing "project"
filterFilesThrows(manifest) == manifest.kind # "json"

\* Promise.all in the place of Promise.allSettled: the first rejection rejects
filterFilesPromise_failFast(tasks) ==
    LET states == {tasks[i].status : i \in DOMAIN tasks}
    IN IF "rejected" \in states THEN "rejected"
       ELSE IF states \subseteq {"fulfilled"} THEN "fulfilled" ELSE "pending"

\* the promise filterFiles returns
filterFilesPromise(tasks) ==
    PromiseAllSettled({tasks[i].status : i \in DOMAIN tasks})

\* the promise removeTemplateFiles returns: Promise.allSettled again; nothing
\* reads how a deletion ended, so a deletion is only pending or settled
removeTemplateFilesPromise(deletions) ==
    IF \A t \in DOMAIN deletions : deletions[t] = "settled"
    THEN "fulfilled" ELSE "pending"

\* createProject from the await of filterFiles on, with the tasks as they are now
AwaitFilterFiles(tasks, eff) ==
    LET promise == filterFilesPromise(tasks)
    IN CASE promise = "pending" ->
                /\ pc' = "filter"
                /\ effects' = eff
                /\ UNCHANGED <<exitCode, cleanup>>
         [] promise = "fulfilled" ->
                /\ pc' = "cleanup"
                /\ effects' = eff \cup {"removeTemplateFiles"}
                /\ cleanup' = [t \in CleanupTargets |-> "pending"]
                /\ UNCHANGED exitCode
         [] OTHER ->
                /\ Exit(9)
                /\ effects' = eff
                /\ UNCHANGED cleanup

\* the summary question is answered: createProject runs up to the clone.
\* existing is what the file system holds at this moment.
AnswerConfirm(existing) ==
    /\ pc = "confirm"
    /\ dirs' = dirs \cup existing
    /\ workingDir' = getProjectTargetDirectory(projectSetup)
    /\ targetExisted' = (workingDir' \in dirs')
    /\ IF checkAvailabilityOfDirectory(projectSetup.id, dirs')
       THEN /\ effects' = effects \cup {"existsSync"}
            /\ Exit(9)
       ELSE /\ effects' = effects \cup {"existsSync", "gitClone"}
            /\ pc' = "clone"
            /\ UNCHANGED exitCode
    /\ UNCHANGED <<templates, projectSetup, shell, answerDenoted, repo,
                   task, content, cleanup, today>>

\* git clone ends; on success filterFiles parses the manifest and starts
\* one filterFile per entry, each running up to its readFile
CloneDone(cloneOk, cloned) ==
    /\ pc = "clone"
    /\ dirs' = IF cloneOk THEN dirs \cup Ancestors(workingDir) ELSE dirs
    /\ repo' = IF cloneOk THEN cloned ELSE NoRepo
    /\ content' = repo'.files
    /\ LET eff == effects \cup (IF cloneOk THEN {} ELSE {"cloneFailed"})
           manifest == repo'.manifest
       IN IF downloadRejects(cloneOk)
          THEN /\ Exit(9)
               /\ effects' = eff
               /\ UNCHANGED <<task, cleanup>>
          ELSE IF filterFilesThrows(manifest)
          THEN /\ Exit(9)
               /\ effects' = eff \cup {"readManifest", "parseFailed"}
               /\ UNCHANGED <<task, cleanup>>
          ELSE LET started == [i \in 1..Len(manifest.project) |->
                                  [file |-> manifest.project[i].file,
                                   keywords |-> manifest.project[i].keywords,
                                   status |-> "reading",
                                   fileData |-> <<>>]]
               IN /\ task' = started
                  /\ AwaitFilterFiles(started,
                         eff \cup {"readManifest"} \cup
                         (IF started = <<>> THEN {} ELSE {"readFile"}))
    /\ UNCHANGED <<templates, projectSetup, shell, answerDenoted, workingDir,
                   targetExisted, today>>

\* the readFile of the i-th filterFile ends; on success the keyword loop
\* runs and writeFile starts
ReadDone(i, ok) ==
    /\ pc = "filter"
    /\ i \in DOMAIN task
    /\ task[i].status = "reading"
    /\ LET t == IF ok
                THEN [task[i] EXCEPT
                         !.status = "writing",
                         !.fileData = FilterKeywords(content[task[i].file],
                                          task[i].keywords, 1, projectSetup, today)]
                ELSE [task[i] EXCEPT !.status = "rejected"]
           tasks == [task EXCEPT ![i] = t]
       IN /\ task' = tasks
          /\ AwaitFilterFiles(tasks,
                 effects \cup (IF ok THEN {"writeFile"} ELSE {}))
    /\ UNCHANGED <<templates, projectSetup, shell, answerDenoted, dirs,
                   workingDir, targetExisted, repo, content, today>>

\* the writeFile of the i-th filterFile ends
WriteDone(i, ok) ==
    /\ pc = "filter"
    /\ i \in DOMAIN task
    /\ task[i].status = "writing"
    /\ content' = IF ok THEN [content EXCEPT ![task[i].file] = task[i].fileData]
                  ELSE content
    /\ LET tasks == [task EXCEPT
                        ![i].status = IF ok THEN "fulfilled" ELSE "rejected",
                        ![i].fileData = <<>>]
       IN /\ task' = tasks
          /\ AwaitFilterFiles(tasks, effects)
    /\ UNCHANGED <<templates, projectSetup, shell, answerDenoted, dirs,
                   workingDir, targetExisted, repo, today>>

\* one deletion of removeTemplateFiles ends; after the last one createProject
\* returns and userInterface calls rl.close(), whose handler exits with 0
CleanupDone(target, ok) ==
    /\ pc = "cleanup"
    /\ cleanup[target] = "pending"
    /\ ok \in BOOLEAN
    /\ LET deletions == [cleanup EXCEPT ![target] = "settled"]
           promise == removeTemplateFilesPromise(deletions)
       IN /\ cleanup' = deletions
          /\ CASE promise = "pending" -> UNCHANGED <<pc, exitCode>>
               [] promise = "fulfilled" -> Exit(0)
               [] OTHER -> Exit(9)
    /\ UNCHANGED <<templates, projectSetup, effects, shell, answerDenoted, dirs,
                   workingDir, targetExisted, repo, task, content, today>>

\* the input stream ends: readline emits "close", the handler of line 16
RlClose ==
    /\ pc # "exited"
    /\ Exit(0)
    /\ UNCHANGED <<templates, projectSetup, effects, shell, answerDenoted, dirs,
                   workingDir, targetExisted, repo, task, content,
                   cleanup, today>>

Next ==
    \/ \E n \in 0..MaxTemplates : FetchDone(n)
    \/ FetchFail
    \/ \E answer \in StringsUpTo(AnswerAlphabet, MaxAnswerLen) : AnswerTemplate(answer)
    \/ \E answer \in StringsUpTo(NameAlphabet, MaxNameLen) : AnswerName(answer)
    \/ \E result \in ShellResults(<<"J", "\n">>) : GitNameDone(result)
    \/ \E result \in ShellResults(<<"j", "@", "x", "\n">>) : GitEmailDone(result)
    \/ \E existing \in ExistingDirs : AnswerConfirm(existing)
    \/ \E cloneOk \in BOOLEAN, cloned \in Repos : CloneDone(cloneOk, cloned)
    \/ \E i \in DOMAIN task, ok \in BOOLEAN : ReadDone(i, ok)
    \/ \E i \in DOMAIN task, ok \in BOOLEAN : WriteDone(i, ok)
    \/ \E target \in CleanupTargets, ok \in BOOLEAN : CleanupDone(target, ok)
    \/ RlClose

Spec == Init /\ [][Next]_vars

(***************************************************************************)
(* The substitution on its own: createProject from the pending clone on,   *)
(* for setups and repositories chosen to exercise filterFile               *)
(***************************************************************************)
MaxValueLen == 2
MaxKeywords == 2

ValueAlphabet == {"a", "$", "&"}
UnknownKeyword == Webstart \o <<"-", "x">>
Keywords == {WebstartProjectId, WebstartProjectName, WebstartProjectAuthor,
             WebstartProjectSetupdate, WebstartTemplateUrl, AtWebstart,
             UnknownKeyword}

RECURSIVE KeywordListsUpTo(_)
KeywordListsUpTo(n) ==
    IF n = 0 THEN {<<>>}
    ELSE LET shorter == KeywordListsUpTo(n - 1)
         IN shorter \cup {Append(l, k) : l \in shorter, k \in Keywords}

\* a text naming every token, with other text around and between them
AllTokens ==
    <<"#", " ">> \o AtWebstart \o <<"/">> \o WebstartProjectId \o <<" ">>
        \o WebstartProjectName \o <<"\n">> \o WebstartProjectAuthor \o <<" ">>
        \o WebstartProjectSetupdate \o <<" ">> \o WebstartTemplateUrl \o <<" ">>
        \o UnknownKeyword \o <<" ">> \o WebstartProjectId

FilterRepos ==
    {[manifest |-> [kind |-> "json",
                    project |-> <<[file |-> "README.md", keywords |-> l]>>],
      files |-> [RepoContent EXCEPT !["README.md"] = AllTokens]]
        : l \in KeywordListsUpTo(MaxKeywords)}
    \cup
    {[manifest |-> [kind |-> "json",
                    project |-> <<[file |-> "README.md",
                                   keywords |-> <<WebstartProjectId>>],
                                  [file |-> "README.md",
                                   keywords |-> <<WebstartProjectName>>]>>],
      files |-> RepoContent]}

FilterDates == {[year |-> 2024, month |-> 1, day |-> 5],
                [year |-> 2025, month |-> 12, day |-> 31]}

\* the wizard has run for the one-template catalog and the name, git answered
\* both lookups, the directory was free and the clone is pending
InitFilter ==
    /\ pc = "clone"
    /\ templates = userInterfaceLoadTemplates(fetchAvailableTemplates(1))
    /\ \E name \in StringsUpTo(ValueAlphabet, MaxValueLen) \ {<<>>} :
           projectSetup = [template |-> TemplateItem(1),
                           id |-> convertStringToProjectId(name),
                           name |-> name,
                           userName |-> <<"J">>,
                           userEmail |-> <<"j", "@", "x">>]
    /\ exitCode = NoExit
    /\ effects = {"questionTemplate", "questionName", "gitConfig",
                  "questionConfirm", "existsSync", "gitClone"}
    /\ shell = [name |-> [ran |-> TRUE, error |-> FALSE, stdout |-> <<"J", "\n">>],
                email |-> [ran |-> TRUE, error |-> FALSE,
                           stdout |-> <<"j", "@", "x", "\n">>]]
    /\ answerDenoted = "yes"
    /\ dirs = {<<>>, CwdDir}
    /\ workingDir = getProjectTargetDirectory(projectSetup)
    /\ targetExisted = FALSE
    /\ repo = NoRepo
    /\ task = <<>>
    /\ content = <<>>
    /\ cleanup = NotStarted
    /\ today \in FilterDates

NextFilter ==
    \/ \E cloned \in FilterRepos : CloneDone(TRUE, cloned)
    \/ \E i \in DOMAIN task, ok \in BOOLEAN : ReadDone(i, ok)
    \/ \E i \in DOMAIN task, ok \in BOOLEAN : WriteDone(i, ok)
    \/ \E target \in CleanupTargets, ok \in BOOLEAN : CleanupDone(target, ok)
    \/ RlClose

SpecFilter == InitFilter /\ [][NextFilter]_vars

(***************************************************************************)
(* Properties                                                              *)
(***************************************************************************)
Exited == pc = "exited"
SubstitutionEffects == {"readFile", "writeFile"}
Settled(i) == task[i].status \in {"fulfilled", "rejected"}
InFlight(i) == task[i].status \in {"reading", "writing"}
CreateProjectBegan == "existsSync" \in effects

\* C1: a failed clone is followed by no read of the manifest, no filterFile
\* and no removeTemplateFiles, and the process has ended with a non-zero
\* code; a failed parse of the manifest is followed by no filterFile and no
\* removeTemplateFiles, and the process has ended with a non-zero code.
C1_PhasesAllOrNothing ==
    /\ "cloneFailed" \in effects =>
           /\ "readManifest" \notin effects
           /\ task = <<>>
           /\ effects \cap (SubstitutionEffects \cup {"removeTemplateFiles"}) = {}
           /\ Exited /\ exitCode \notin {NoExit, 0}
    /\ "parseFailed" \in effects =>
           /\ task = <<>>
           /\ effects \cap (SubstitutionEffects \cup {"removeTemplateFiles"}) = {}
           /\ Exited /\ exitCode \notin {NoExit, 0}

C1_Witness ==
    "parseFailed" \in effects /\ "cloneFailed" \notin effects /\ exitCode = 9

\* C2: with a non-empty catalog the process ends with code 0 only after
\* selection, name, author, confirmation, directory check, clone,
\* substitution and cleanup have all completed.
C2_ExitZeroOnlyAfterFullSequence ==
    (exitCode = 0 /\ ~templates.isUndefined) =>
        /\ {"questionTemplate", "questionName", "gitConfig", "questionConfirm",
            "existsSync", "gitClone", "readManifest", "removeTemplateFiles"}
               \subseteq effects
        /\ \A i \in DOMAIN task : Settled(i)
        /\ \A t \in CleanupTargets : cleanup[t] = "settled"

\* C3: an empty catalog prints the no-templates message, asks nothing,
\* clones and writes nothing, and the process ends with code 0.
C3_EmptyCatalogExitsZero ==
    "catalogEmpty" \in effects =>
        /\ "noTemplatesMessage" \in effects
        /\ effects \cap {"questionTemplate", "questionName", "questionConfirm",
                         "gitClone", "writeFile"} = {}
        /\ exitCode = 0

\* C4: when the target directory exists as createProject starts, the process
\* ends with code 9 and git clone is never run.
C4_ExistingTargetNeverCloned ==
    targetExisted => exitCode = 9 /\ "gitClone" \notin effects

\* a name usable as one path component
FilesystemSafe(id) ==
    /\ \A i \in 1..Len(id) : id[i] # "/"
    /\ id \notin {<<".">>, <<".", ".">>}

\* C6: when createProject begins, the id is convertStringToProjectId of the
\* name, is not empty and is a single path component, so that the target
\* directory is a direct child of the working directory.
C6_ProjectIdDerivedAndSafe ==
    CreateProjectBegan =>
        /\ projectSetup.id = convertStringToProjectId(projectSetup.name)
        /\ projectSetup.id # <<>>
        /\ FilesystemSafe(projectSetup.id)
        /\ workingDir = Append(CwdDir, projectSetup.id)

\* C7: every manifest entry gets its filterFile; a rejected filterFile never
\* ends the run with an error, and while the process runs every unsettled
\* filterFile is still in the substitution phase, where its read and write
\* can complete; removeTemplateFiles starts only when all of them have
\* settled; and with the cleanup settled the process has ended with code 0.
C7_SettleAll ==
    /\ ("readManifest" \in effects /\ "parseFailed" \notin effects) =>
           /\ Len(task) = Len(repo.manifest.project)
           /\ \A i \in DOMAIN task :
                  /\ task[i].file = repo.manifest.project[i].file
                  /\ task[i].keywords = repo.manifest.project[i].keywords
    /\ (\E i \in DOMAIN task : task[i].status = "rejected") =>
           exitCode \in {NoExit, 0}
    /\ \A i \in DOMAIN task : (~Exited /\ InFlight(i)) => pc = "filter"
    /\ "removeTemplateFiles" \in effects => \A i \in DOMAIN task : Settled(i)
    /\ (\A t \in CleanupTargets : cleanup[t] = "settled") => exitCode = 0

C7_Witness ==
    /\ Len(task) = 2
    /\ task[1].status = "rejected"
    /\ task[2].status = "fulfilled"
    /\ content[task[2].file] # repo.files[task[2].file]
    /\ \A t \in CleanupTargets : cleanup[t] = "settled"
    /\ exitCode = 0

\* what a successful lookup contributes: its output without the line end
LookupValue(result) == Trim(result.stdout)
LookupsOver == shell.name.error \/ shell.email.ran

\* C8: once the lookups are over the summary question has been asked; the
\* author is the pair of outputs when both lookups succeeded and the pair
\* Unknown and empty when either failed; no error exit happens in between.
C8_AuthorNeverAborts ==
    /\ LookupsOver =>
           /\ "questionConfirm" \in effects
           /\ IF shell.name.error \/ shell.email.error
              THEN /\ projectSetup.userName = <<"U", "n", "k", "n", "o", "w", "n">>
                   /\ projectSetup.userEmail = <<>>
              ELSE /\ projectSetup.userName = LookupValue(shell.name)
                   /\ projectSetup.userEmail = LookupValue(shell.email)
    /\ ("gitConfig" \in effects /\ "questionConfirm" \notin effects) =>
           exitCode \in {NoExit, 0}

C8_Witness ==
    /\ ~shell.name.error
    /\ shell.email.ran /\ shell.email.error
    /\ "gitClone" \in effects

\* C9: an answer that does not denote an index of the catalog ends the
\* process with code 9 before any further question, lookup, directory check,
\* clone or write; and createProject only begins with a template of the
\* catalog.
C9_InvalidSelectionRejected ==
    /\ answerDenoted = "no" =>
           /\ exitCode = 9
           /\ effects \cap {"questionName", "gitConfig", "questionConfirm",
                            "existsSync", "gitClone", "writeFile"} = {}
    /\ CreateProjectBegan =>
           \E i \in DOMAIN templates.items : projectSetup.template = templates.items[i]

\* the keyword table: the value a recognized token resolves to
TableTokens == {WebstartProjectId, WebstartProjectName, WebstartProjectAuthor,
                WebstartProjectSetupdate, WebstartTemplateUrl, AtWebstart}
TableValue(key, setup, date) ==
    CASE key = WebstartProjectId -> setup.id
      [] key = WebstartProjectName -> setup.name
      [] key = WebstartProjectAuthor ->
             setup.userName \o <<" ", "<">> \o setup.userEmail \o <<">">>
      [] key = WebstartProjectSetupdate ->
             ToLocaleDateString(date) \o <<" ", "(", "e", "n", "-", "U", "S", ")">>
      [] key = WebstartTemplateUrl -> setup.template.htmlUrl
      [] key = AtWebstart -> <<"@">> \o setup.id

\* every literal occurrence of key, left to right, replaced by exactly value
RECURSIVE LiteralReplace(_, _, _, _, _)
LiteralReplace(text, key, value, i, out) ==
    LET p == IndexOf(text, key, i)
    IN IF p = 0 THEN out \o SubSeq(text, i, Len(text))
       ELSE LiteralReplace(text, key, value, p + Len(key),
                           out \o SubSeq(text, i, p - 1) \o value)

\* the keywords in listed order: a token of the table replaced by its value
\* verbatim, any other keyword leaving the text as it is
RECURSIVE TableTransform(_, _, _, _, _)
TableTransform(text, keywords, k, setup, date) ==
    IF k > Len(keywords) THEN text
    ELSE TableTransform(
             IF keywords[k] \in TableTokens
             THEN LiteralReplace(text, keywords[k],
                                 TableValue(keywords[k], setup, date), 1, <<>>)
             ELSE text,
             keywords, k + 1, setup, date)

\* C5: what filterFile hands to writeFile, and what the file holds after the
\* write, is the original text with the entry's keywords processed in listed
\* order, every occurrence of a recognized token replaced by exactly its
\* value of the keyword table, other keywords changing nothing.
C5_WrittenIsTableTransform ==
    Len(task) = 1 =>
        LET expected == TableTransform(repo.files[task[1].file], task[1].keywords,
                                       1, projectSetup, today)
        IN /\ task[1].status = "writing" => task[1].fileData = expected
           /\ task[1].status = "fulfilled" => content[task[1].file] = expected

\* the text of a file after the filterFile calls i and j ran one after the other
OneAfterTheOther(i, j) ==
    FilterKeywords(
        FilterKeywords(repo.files[task[i].file], task[i].keywords, 1,
                       projectSetup, today),
        task[j].keywords, 1, projectSetup, today)

\* no substitution that a filterFile wrote is lost to another one
NoLostUpdate ==
    \A i, j \in DOMAIN task :
        (i # j /\ task[i].file = task[j].file
             /\ task[i].status = "fulfilled" /\ task[j].status = "fulfilled")
        => content[task[i].file] \in {OneAfterTheOther(i, j), OneAfterTheOther(j, i)}

\* C10: no two unsettled filterFile calls work on the same file, no written
\* substitution is lost to another call, and no deletion of the cleanup is
\* pending while a filterFile is unsettled.
C10_NoSharedFile ==
    /\ \A i, j \in DOMAIN task :
           (i # j /\ InFlight(i) /\ InFlight(j)) => task[i].file # task[j].file
    /\ NoLostUpdate
    /\ (\E t \in CleanupTargets : cleanup[t] = "pending") =>
           \A i \in DOMAIN task : ~InFlight(i)

====
